---- MODULE Spec2Model ----
(***************************************************************************)
(* Metadata registration of sequelize-typescript (lib/utils/models.ts) and *)
(* the Comment property decorator.                                         *)
(*                                                                         *)
(* The reflect-metadata store is modelled by what the code relies on:      *)
(* Reflect.defineMetadata(key, value, target) writes the target's OWN      *)
(* entry, Reflect.getMetadata(key, target) reads the own entry and, when   *)
(* there is none, the entry of the nearest object on the prototype chain.  *)
(* JavaScript objects have identity: the store holds REFERENCES into a     *)
(* heap, so two targets that read the same reference share one object.     *)
(***************************************************************************)
EXTENDS Naturals, Sequences, FiniteSets

VARIABLES
  store,   \* the reflect-metadata store and the heap it points into
  log,     \* history: the calls that returned normally, in call order, one
           \* sequence for each of the four metadata keys
  last     \* the most recent call and how it ended

vars == <<store, log, last>>

----------------------------------------------------------------------------
(* Bounds of the model *)

MaxCalls == 3        \* calls that return normally in one run

----------------------------------------------------------------------------
(* The classes of the program under analysis.  Child extends Base, so      *)
(* Child.prototype's prototype is Base.prototype; Other is unrelated.      *)

Targets == {"Base", "Child", "Other"}
NoProto == "null"
GetPrototypeOf(o) == IF o = "Child" THEN "Base" ELSE NoProto

\* target.constructor.name of a class prototype
ConstructorName(target) == target

Names == {"title", "ghost"}                 \* property names
ModelNames == {"Post"}
Getters == {"getUser"}                     \* relatedClassGetter closures

\* metadata keys (models.ts 8-11)
MODEL_NAME_KEY == "sequelize:modelName"
ATTRIBUTES_KEY == "sequelize:attributes"
OPTIONS_KEY == "sequelize:options"
FOREIGN_KEYS_KEY == "sequelize:foreignKey"
MetaKeys == {MODEL_NAME_KEY, ATTRIBUTES_KEY, OPTIONS_KEY, FOREIGN_KEYS_KEY}

----------------------------------------------------------------------------
(* Plain JavaScript objects: a finite map from field names to values.      *)

EmptyObject == [f \in {} |-> FALSE]

Has(obj, f) == f \in DOMAIN obj

\* obj[f] = v
Put(obj, f, v) == [g \in DOMAIN obj \cup {f} |-> IF g = f THEN v ELSE obj[g]]

\* Object.assign(dst, src): every own field of src is written over dst
ObjectAssign(dst, src) ==
  [f \in DOMAIN dst \cup DOMAIN src |-> IF f \in DOMAIN src THEN src[f] ELSE dst[f]]

DEFAULT_OPTIONS == [timestamps |-> FALSE]

\* the option objects callers own and pass to addAttribute (heap cells 1, 2)
CallerObjects == << [type |-> "STRING", comment |-> "old"], [type |-> "INTEGER"] >>
CallerRefs == 1..Len(CallerObjects)

\* option literals passed to addAttributeOptions
AttributeOptions == { [type |-> "DATE", allowNull |-> "no"] }
CommentValues == {"headline"}

\* option literals passed to setOptions / addOptions
DefineOptions == { [timestamps |-> TRUE], [timestamps |-> FALSE, paranoid |-> TRUE] }

\* the declared types the compiler can emit as design:type metadata
DesignTypes == {"String", "Number", "Boolean", "Date", "Object"}

\* enums/DataType
DataType == [STRING |-> "STRING", INTEGER |-> "INTEGER",
             BOOLEAN |-> "BOOLEAN", DATE |-> "DATE"]

----------------------------------------------------------------------------
(* The store.                                                              *)
(*   meta[key][o]  own metadata of object o under key: <<>> when there is  *)
(*                 none, <<v>> when it is v (a reference or a string)      *)
(*   objs          heap of column option objects (records, the caller's)   *)
(*   defs          heap of model option objects                            *)
(*   maps          heap of attribute maps: property name -> ref into objs  *)
(*   lists         heap of foreign-key arrays                              *)
(*   design[o][p]  own design:type metadata of property p of object o      *)

EmptyStore ==
  [ meta  |-> [k \in MetaKeys |-> [o \in Targets |-> <<>>]],
    objs  |-> CallerObjects,
    defs  |-> <<>>,
    maps  |-> <<>>,
    lists |-> <<>>,
    design |-> [o \in Targets |-> [p \in Names |-> <<>>]] ]

\* Reflect.getMetadata(key, target): own entry, else up the prototype chain
RECURSIVE ReflectGetMetadata(_, _, _)
ReflectGetMetadata(S, key, o) ==
  IF Len(S.meta[key][o]) > 0 THEN S.meta[key][o]
  ELSE IF GetPrototypeOf(o) = NoProto THEN <<>>
  ELSE ReflectGetMetadata(S, key, GetPrototypeOf(o))

\* Reflect.defineMetadata(key, value, target): the target's own entry
ReflectDefineMetadata(S, key, value, o) ==
  [S EXCEPT !.meta[key][o] = <<value>>]

\* Reflect.getMetadata(key, target, propertyKey) for key design:type
RECURSIVE ReflectGetPropertyMetadata(_, _, _)
ReflectGetPropertyMetadata(S, o, p) ==
  IF Len(S.design[o][p]) > 0 THEN S.design[o][p]
  ELSE IF GetPrototypeOf(o) = NoProto THEN <<>>
  ELSE ReflectGetPropertyMetadata(S, GetPrototypeOf(o), p)

Defined(m) == Len(m) > 0

\* outcome of a call: the store it leaves, the value it returned and the
\* error it threw (<<>>: none)
Return(S) == [store |-> S, value |-> <<>>, error |-> <<>>]
ReturnValue(S, v) == [store |-> S, value |-> <<v>>, error |-> <<>>]
Throw(S, e) == [store |-> S, value |-> <<>>, error |-> <<e>>]

----------------------------------------------------------------------------
(* lib/utils/models.ts *)

setModelName(S, target, modelName) ==
  ReflectDefineMetadata(S, MODEL_NAME_KEY, modelName, target)

getModelName(S, target) == ReflectGetMetadata(S, MODEL_NAME_KEY, target)

getAttributes(S, target) == ReflectGetMetadata(S, ATTRIBUTES_KEY, target)

setAttributes(S, target, attributes) ==
  ReflectDefineMetadata(S, ATTRIBUTES_KEY, attributes, target)

\* addAttribute that stores the caller's object itself instead of a copy
\* (attributes[name] = options)
addAttribute_noCopy(S, target, name, options) ==
  LET found == getAttributes(S, target)
      S1 == IF Defined(found) THEN S
            ELSE setAttributes([S EXCEPT !.maps = Append(@, EmptyObject)],
                               target, Len(S.maps) + 1)
      attributes == IF Defined(found) THEN found[1] ELSE Len(S.maps) + 1
  IN  [S1 EXCEPT !.maps[attributes] = Put(@, name, options)]

\* options is a reference to the caller's object
addAttribute(S, target, name, options) ==
  LET found == getAttributes(S, target)
      \* if (!attributes) { attributes = {}; setAttributes(target, attributes) }
      S1 == IF Defined(found) THEN S
            ELSE setAttributes([S EXCEPT !.maps = Append(@, EmptyObject)],
                               target, Len(S.maps) + 1)
      attributes == IF Defined(found) THEN found[1] ELSE Len(S.maps) + 1
      \* Object.assign({}, options): a fresh object
      S2 == [S1 EXCEPT !.objs = Append(@, ObjectAssign(EmptyObject, S1.objs[options]))]
  IN  [S2 EXCEPT !.maps[attributes] = Put(@, name, Len(S2.objs))]

\* addAttributeOptions that replaces the record's fields by the new options
\* instead of merging them (attributes[propertyName] = Object.assign({}, options))
addAttributeOptions_replace(S, target, propertyName, options) ==
  LET attributes == getAttributes(S, target)
  IN  IF ~Defined(attributes) \/ ~Has(S.maps[attributes[1]], propertyName)
      THEN Throw(S, <<"@Column annotation is missing or annotation order is wrong",
                      propertyName, ConstructorName(target)>>)
      ELSE LET ref == S.maps[attributes[1]][propertyName]
           IN  Return([S EXCEPT !.objs[ref] = ObjectAssign(EmptyObject, options)])

\* addAttributeOptions that creates the missing map and record before it
\* reports the missing column
addAttributeOptions_createThenThrow(S, target, propertyName, options) ==
  LET attributes == getAttributes(S, target)
  IN  IF ~Defined(attributes) \/ ~Has(S.maps[attributes[1]], propertyName)
      THEN LET S1 == IF Defined(attributes) THEN S
                     ELSE setAttributes([S EXCEPT !.maps = Append(@, EmptyObject)],
                                        target, Len(S.maps) + 1)
               map == IF Defined(attributes) THEN attributes[1] ELSE Len(S.maps) + 1
               S2 == [S1 EXCEPT !.objs = Append(@, EmptyObject)]
           IN  Throw([S2 EXCEPT !.maps[map] = Put(@, propertyName, Len(S2.objs))],
                     <<"@Column annotation is missing or annotation order is wrong",
                       propertyName, ConstructorName(target)>>)
      ELSE LET ref == S.maps[attributes[1]][propertyName]
           IN  Return([S EXCEPT !.objs[ref] = ObjectAssign(@, options)])

\* options is an object literal of the caller, only read
addAttributeOptions(S, target, propertyName, options) ==
  LET attributes == getAttributes(S, target)
  IN  IF ~Defined(attributes) \/ ~Has(S.maps[attributes[1]], propertyName)
      THEN Throw(S, <<"@Column annotation is missing or annotation order is wrong",
                      propertyName, ConstructorName(target)>>)
      ELSE LET ref == S.maps[attributes[1]][propertyName]
               \* Object.assign(attributes[propertyName], options) mutates in place
               S1 == [S EXCEPT !.objs[ref] = ObjectAssign(@, options)]
           IN  Return([S1 EXCEPT !.maps[attributes[1]] = Put(@, propertyName, ref)])

getOptions(S, target) == ReflectGetMetadata(S, OPTIONS_KEY, target)

\* options is an object value, only read
setOptions(S, target, options) ==
  LET S1 == [S EXCEPT !.defs =
               Append(@, ObjectAssign(ObjectAssign(EmptyObject, DEFAULT_OPTIONS), options))]
  IN  ReflectDefineMetadata(S1, OPTIONS_KEY, Len(S1.defs), target)

\* addOptions that forgets the options already stored
\* (setOptions(target, options))
addOptions_replace(S, target, options) == setOptions(S, target, options)

addOptions(S, target, options) ==
  LET found == getOptions(S, target)
      \* if (!_options) _options = {}
      S1 == IF Defined(found) THEN S ELSE [S EXCEPT !.defs = Append(@, EmptyObject)]
      _options == IF Defined(found) THEN found[1] ELSE Len(S1.defs)
      \* Object.assign(_options, options) mutates _options in place
      S2 == [S1 EXCEPT !.defs[_options] = ObjectAssign(@, options)]
  IN  setOptions(S2, target, S2.defs[_options])

getForeignKeys(S, target) == ReflectGetMetadata(S, FOREIGN_KEYS_KEY, target)

setForeignKeys(S, target, foreignKeys) ==
  ReflectDefineMetadata(S, FOREIGN_KEYS_KEY, foreignKeys, target)

\* addForeignKey that starts a new array on every call
addForeignKey_newList(S, target, relatedClassGetter, propertyName) ==
  LET S1 == setForeignKeys([S EXCEPT !.lists = Append(@, <<>>)],
                           target, Len(S.lists) + 1)
  IN  [S1 EXCEPT !.lists[Len(S.lists) + 1] =
         Append(@, [relatedClassGetter |-> relatedClassGetter,
                    foreignKey |-> propertyName])]

addForeignKey(S, target, relatedClassGetter, propertyName) ==
  LET found == getForeignKeys(S, target)
      S1 == IF Defined(found) THEN S
            ELSE setForeignKeys([S EXCEPT !.lists = Append(@, <<>>)],
                                target, Len(S.lists) + 1)
      foreignKeys == IF Defined(found) THEN found[1] ELSE Len(S.lists) + 1
  IN  [S1 EXCEPT !.lists[foreignKeys] =
         Append(@, [relatedClassGetter |-> relatedClassGetter,
                    foreignKey |-> propertyName])]

\* getSequelizeTypeByDesignType whose default branch answers STRING
getSequelizeTypeByDesignType_defaultString(S, target, propertyName) ==
  LET type == ReflectGetPropertyMetadata(S, target, propertyName)
  IN  CASE type = <<"Number">>  -> ReturnValue(S, DataType.INTEGER)
        [] type = <<"Boolean">> -> ReturnValue(S, DataType.BOOLEAN)
        [] type = <<"Date">>    -> ReturnValue(S, DataType.DATE)
        [] OTHER -> ReturnValue(S, DataType.STRING)

getSequelizeTypeByDesignType(S, target, propertyName) ==
  LET type == ReflectGetPropertyMetadata(S, target, propertyName)
  IN  CASE type = <<"String">>  -> ReturnValue(S, DataType.STRING)
        [] type = <<"Number">>  -> ReturnValue(S, DataType.INTEGER)
        [] type = <<"Boolean">> -> ReturnValue(S, DataType.BOOLEAN)
        [] type = <<"Date">>    -> ReturnValue(S, DataType.DATE)
        [] OTHER -> Throw(S, <<"Specified type of property cannot be automatically resolved to a sequelize data type",
                               propertyName>>)

----------------------------------------------------------------------------
(* annotations: Comment(value) returns the property decorator *)

Comment(S, value, target, propertyName) ==
  addAttributeOptions(S, target, propertyName, [comment |-> value])

----------------------------------------------------------------------------
(* What a reader of the store sees *)

\* getAttributes(target) as a value: property name -> record (<<>>: undefined)
AttributesOf(S, target) ==
  LET a == getAttributes(S, target)
  IN  IF Defined(a)
      THEN << [n \in DOMAIN S.maps[a[1]] |-> S.objs[S.maps[a[1]][n]]] >>
      ELSE <<>>

\* getOptions(target) as a value
OptionsOf(S, target) ==
  LET o == getOptions(S, target) IN IF Defined(o) THEN << S.defs[o[1]] >> ELSE <<>>

\* the foreign-key array of target as a value
ForeignKeysOf(S, target) ==
  LET l == getForeignKeys(S, target) IN IF Defined(l) THEN << S.lists[l[1]] >> ELSE <<>>

----------------------------------------------------------------------------
(* Specification *)

\* arg: the argument as a value; ref: the heap cell of the caller's object
\* when the argument is passed by reference (0: a literal)
Call(op, target, name, arg, ref) ==
  [op |-> op, target |-> target, name |-> name, arg |-> arg, ref |-> ref]
Outcome(op, target, name, r) ==
  [op |-> op, target |-> target, name |-> name, value |-> r.value, error |-> r.error]

NoCalls == [k \in MetaKeys |-> <<>>]
NoCall == Outcome("none", "", "", Return(EmptyStore))

Init ==
  /\ store = EmptyStore
  /\ log = NoCalls
  /\ last = NoCall

\* the call op(target, name, arg) on the metadata of key ended as r
Finish(key, op, target, name, arg, ref, r) ==
  /\ store' = r.store
  /\ last' = Outcome(op, target, name, r)
  /\ log' = IF Defined(r.error) THEN log
            ELSE [log EXCEPT ![key] = Append(@, Call(op, target, name, arg, ref))]

Budget ==
  Len(log[MODEL_NAME_KEY]) + Len(log[ATTRIBUTES_KEY])
    + Len(log[OPTIONS_KEY]) + Len(log[FOREIGN_KEYS_KEY]) < MaxCalls

AddAttribute ==
  \E target \in Targets, name \in Names, options \in CallerRefs :
    /\ Budget
    /\ Finish(ATTRIBUTES_KEY, "addAttribute", target, name, store.objs[options], options,
              Return(addAttribute(store, target, name, options)))

AddAttributeOptions ==
  \E target \in Targets, name \in Names, options \in AttributeOptions :
    /\ Budget
    /\ Finish(ATTRIBUTES_KEY, "addAttributeOptions", target, name, options, 0,
              addAttributeOptions(store, target, name, options))

\* @Comment(value) applied to a property: an addAttributeOptions call
CommentDecorator ==
  \E target \in Targets, name \in Names, value \in CommentValues :
    /\ Budget
    /\ Finish(ATTRIBUTES_KEY, "addAttributeOptions", target, name, [comment |-> value], 0,
              Comment(store, value, target, name))

SetModelName ==
  \E target \in Targets, modelName \in ModelNames :
    /\ Budget
    /\ Finish(MODEL_NAME_KEY, "setModelName", target, "", modelName, 0,
              Return(setModelName(store, target, modelName)))

SetOptions ==
  \E target \in Targets, options \in DefineOptions :
    /\ Budget
    /\ Finish(OPTIONS_KEY, "setOptions", target, "", options, 0,
              Return(setOptions(store, target, options)))

AddOptions ==
  \E target \in Targets, options \in DefineOptions :
    /\ Budget
    /\ Finish(OPTIONS_KEY, "addOptions", target, "", options, 0,
              Return(addOptions(store, target, options)))

AddForeignKey ==
  \E target \in Targets, getter \in Getters, name \in Names :
    /\ Budget
    /\ Finish(FOREIGN_KEYS_KEY, "addForeignKey", target, name, getter, 0,
              Return(addForeignKey(store, target, getter, name)))

Next ==
  \/ AddAttribute
  \/ AddAttributeOptions
  \/ CommentDecorator
  \/ SetModelName
  \/ SetOptions
  \/ AddOptions
  \/ AddForeignKey

Spec == Init /\ [][Next]_vars

----------------------------------------------------------------------------
(* Type inference, checked on its own: the compiler has emitted a          *)
(* design:type for some properties, and the function is applied to every   *)
(* (class, property) pair.                                                 *)

InitType ==
  /\ \E design \in [Targets -> [Names -> {<<>>} \cup {<<d>> : d \in DesignTypes}]] :
        store = [EmptyStore EXCEPT !.design = design]
  /\ log = NoCalls
  /\ last = NoCall

GetSequelizeTypeByDesignType ==
  \E target \in Targets, name \in Names :
    LET r == getSequelizeTypeByDesignType(store, target, name)
    IN  /\ store' = r.store
        /\ last' = Outcome("getSequelizeTypeByDesignType", target, name, r)
        /\ UNCHANGED log

NextType == GetSequelizeTypeByDesignType

SpecType == InitType /\ [][NextType]_vars

----------------------------------------------------------------------------
(* Vocabulary of the properties *)

RECURSIVE Ancestors(_)
Ancestors(o) ==
  IF GetPrototypeOf(o) = NoProto THEN {}
  ELSE {GetPrototypeOf(o)} \cup Ancestors(GetPrototypeOf(o))

\* two different classes, one of which inherits from the other
Related(t, u) == t \in Ancestors(u) \/ u \in Ancestors(t)

Max(I) == CHOOSE i \in I : \A j \in I : j <= i

\* the calls that returned normally: addAttribute and addAttributeOptions,
\* setOptions and addOptions, addForeignKey
AttributeCalls == log[ATTRIBUTES_KEY]
OptionCalls == log[OPTIONS_KEY]
ForeignKeyCalls == log[FOREIGN_KEYS_KEY]

\* the value the last of the calls I of the sequence calls gave to field f
LastSupplied(calls, I, f) ==
  calls[Max({i \in I : f \in DOMAIN calls[i].arg})].arg[f]

\* every field some call of I supplied
Supplied(calls, I) == UNION {DOMAIN calls[i].arg : i \in I}

\* index of the last addAttribute(t, n, _), 0 when there is none
LastAddAttribute(t, n) ==
  LET I == {i \in 1..Len(AttributeCalls) :
              /\ AttributeCalls[i].op = "addAttribute"
              /\ AttributeCalls[i].target = t /\ AttributeCalls[i].name = n}
  IN  IF I = {} THEN 0 ELSE Max(I)

\* the calls that built the record of (t, n): the last addAttribute and the
\* addAttributeOptions(t, n, _) calls after it
RecordCalls(t, n) ==
  {LastAddAttribute(t, n)} \cup
  {j \in (LastAddAttribute(t, n) + 1)..Len(AttributeCalls) :
     /\ AttributeCalls[j].op = "addAttributeOptions"
     /\ AttributeCalls[j].target = t /\ AttributeCalls[j].name = n}

\* since the last addAttribute(t, n, _), a class related to t by inheritance
\* was given the attribute n too
OtherClassWrote(t, n) ==
  \E j \in (LastAddAttribute(t, n) + 1)..Len(AttributeCalls) :
     AttributeCalls[j].name = n /\ Related(AttributeCalls[j].target, t)

OrderingError(propertyName, target) ==
  << <<"@Column annotation is missing or annotation order is wrong",
       propertyName, ConstructorName(target)>> >>

----------------------------------------------------------------------------
(* Properties *)

C2_UnregisteredPropertyFails ==
  (/\ last.op = "addAttributeOptions"
   /\ \A i \in 1..Len(AttributeCalls) :
        ~(/\ AttributeCalls[i].op = "addAttribute"
          /\ AttributeCalls[i].name = last.name
          /\ AttributeCalls[i].target \in {last.target} \cup Ancestors(last.target)))
  => last.error = OrderingError(last.name, last.target)

\* what a reader sees of class t: its attributes, options and foreign keys
Bucket(S, t) == <<AttributesOf(S, t), OptionsOf(S, t), ForeignKeysOf(S, t)>>

MutatingOps == {"addAttribute", "addAttributeOptions", "addOptions", "addForeignKey"}

\* C3: a call of addAttribute, addAttributeOptions, addOptions or
\* addForeignKey with target A changes nothing of what getAttributes(B),
\* getOptions(B) and the foreign-key list of B return, for every other class
\* B (a class that inherits from A reads A's entries and is left aside), in
\* particular when A is a subclass of B without own entries.
C3_OtherClassesUntouched ==
  [][ last'.op \in MutatingOps
      => \A B \in Targets \ {last'.target} :
           last'.target \notin Ancestors(B) => Bucket(store', B) = Bucket(store, B) ]_vars

\* C4: once setOptions or addOptions was called on a class, its options have
\* a timestamps field, and the field is false unless a setOptions or
\* addOptions call on the class (or on a class it inherits from) supplied
\* the other value.
C4_TimestampsFalseUnlessOverridden ==
  \A t \in Targets :
    (\E i \in 1..Len(OptionCalls) : OptionCalls[i].target = t) =>
      LET o == OptionsOf(store, t)
      IN  /\ Defined(o)
          /\ Has(o[1], "timestamps")
          /\ o[1].timestamps # FALSE =>
               \E i \in 1..Len(OptionCalls) :
                  /\ OptionCalls[i].target \in {t} \cup Ancestors(t)
                  /\ Has(OptionCalls[i].arg, "timestamps")
                  /\ OptionCalls[i].arg.timestamps = o[1].timestamps

\* the addForeignKey calls on class t, in call order
ForeignKeyCallsOn(t) == SelectSeq(ForeignKeyCalls, LAMBDA c : c.target = t)

\* C5: after k addForeignKey calls on a class its foreign-key list has
\* exactly k entries, entry i being the (relatedClassGetter, propertyName)
\* pair of the i-th call, repeated names included; before the first call
\* the class has no list of its own.
C5_ForeignKeysAreTheCallsInOrder ==
  \A t \in Targets :
    LET calls == ForeignKeyCallsOn(t)
    IN  IF Len(calls) = 0
        THEN ~Defined(store.meta[FOREIGN_KEYS_KEY][t])
        ELSE ForeignKeysOf(store, t) =
               << [i \in 1..Len(calls) |->
                     [relatedClassGetter |-> calls[i].arg, foreignKey |-> calls[i].name]] >>

\* a is an attribute map that b extends: b has every property name of a
NamesKept(a, b) ==
  Defined(a) => Defined(b) /\ DOMAIN a[1] \subseteq DOMAIN b[1]

\* ... and the record of property n in b has every field it has in a
FieldsKept(a, b, n) ==
  (Defined(a) /\ Has(a[1], n)) =>
    /\ Defined(b)
    /\ Has(b[1], n)
    /\ DOMAIN a[1][n] \subseteq DOMAIN b[1][n]

\* the options record b has every field of the options record a
OptionsKept(a, b) ==
  Defined(a) => Defined(b) /\ DOMAIN a[1] \subseteq DOMAIN b[1]

\* the foreign-key list b starts with the entries of the list a
ForeignKeysKept(a, b) ==
  Defined(a) =>
    /\ Defined(b)
    /\ Len(a[1]) <= Len(b[1])
    /\ SubSeq(b[1], 1, Len(a[1])) = a[1]

\* C6 as stated: no addAttribute, addAttributeOptions, addOptions or
\* addForeignKey call removes a property name from a class's attribute map,
\* a field from an attribute record, a field from the options record or an
\* entry from the foreign-key list.
C6_NothingEverRemoved ==
  [][ last'.op \in MutatingOps =>
        \A t \in Targets :
          LET a == AttributesOf(store, t)
              b == AttributesOf(store', t)
          IN  /\ NamesKept(a, b)
              /\ \A n \in Names : FieldsKept(a, b, n)
              /\ OptionsKept(OptionsOf(store, t), OptionsOf(store', t))
              /\ ForeignKeysKept(ForeignKeysOf(store, t), ForeignKeysOf(store', t))
    ]_vars

\* the call c is an addAttribute call that writes property n of class t
\* (issued on t or on a class related to t by inheritance)
RegistersAgain(c, t, n) ==
  /\ c.op = "addAttribute" /\ c.name = n
  /\ (c.target = t \/ Related(c.target, t))

\* C6 amended: as C6, except that an addAttribute call for a property name
\* replaces that property's record by a copy of the new options, so the
\* fields of the old record that the new options lack are gone.
C6_RemovedOnlyByReRegistration ==
  [][ last'.op \in MutatingOps =>
        \A t \in Targets :
          LET a == AttributesOf(store, t)
              b == AttributesOf(store', t)
          IN  /\ NamesKept(a, b)
              /\ \A n \in Names : ~RegistersAgain(last', t, n) => FieldsKept(a, b, n)
              /\ OptionsKept(OptionsOf(store, t), OptionsOf(store', t))
              /\ ForeignKeysKept(ForeignKeysOf(store, t), ForeignKeysOf(store', t))
    ]_vars

\* a property registered, merged into, and registered again: the merged
\* field is gone, the property name is still there
C6_Witness ==
  /\ Len(AttributeCalls) >= 3
  /\ AttributeCalls[1].op = "addAttribute" /\ AttributeCalls[1].ref = 2
  /\ AttributeCalls[2] =
       Call("addAttributeOptions", AttributeCalls[1].target, AttributeCalls[1].name,
            [comment |-> "headline"], 0)
  /\ AttributeCalls[3] = AttributeCalls[1]
  /\ AttributesOf(store, AttributeCalls[1].target)[1][AttributeCalls[1].name]
       = [type |-> "INTEGER"]

\* C7: getSequelizeTypeByDesignType returns STRING, INTEGER, BOOLEAN, DATE
\* for the declared types String, Number, Boolean, Date and throws the
\* 'cannot be automatically resolved' error, returning nothing, for every
\* other declared type and for a property without design:type metadata.
C7_TypeInference ==
  last.op = "getSequelizeTypeByDesignType" =>
    LET declared == ReflectGetPropertyMetadata(store, last.target, last.name)
        returns(v) == last.value = <<v>> /\ last.error = <<>>
    IN  /\ declared = <<"String">>  => returns("STRING")
        /\ declared = <<"Number">>  => returns("INTEGER")
        /\ declared = <<"Boolean">> => returns("BOOLEAN")
        /\ declared = <<"Date">>    => returns("DATE")
        /\ declared \notin {<<"String">>, <<"Number">>, <<"Boolean">>, <<"Date">>} =>
             /\ last.value = <<>>
             /\ last.error = << <<"Specified type of property cannot be automatically resolved to a sequelize data type",
                                  last.name>> >>

\* inference was asked for a property declared with a plain object type
C7_Witness ==
  /\ last.op = "getSequelizeTypeByDesignType"
  /\ store.design[last.target][last.name] = <<"Object">>
  /\ Defined(last.error)

\* the setOptions / addOptions calls that built the options of class t:
\* those on t, from its last setOptions on, that come after the last
\* addOptions call on a class inheriting from t
OptionCallsOn(t) ==
  LET onT == {i \in 1..Len(OptionCalls) : OptionCalls[i].target = t}
      resets == {i \in onT : OptionCalls[i].op = "setOptions"}
      foreign == {i \in 1..Len(OptionCalls) :
                    /\ OptionCalls[i].op = "addOptions"
                    /\ t \in Ancestors(OptionCalls[i].target)}
  IN  {i \in onT : (\A j \in resets : j <= i) /\ (\A j \in foreign : j < i)}

C9_AddAttributeCopies ==
  [][ /\ \A c \in CallerRefs : store'.objs[c] = store.objs[c]
      /\ (last'.op = "addAttributeOptions" /\ ~Defined(last'.error)) =>
           \A t \in Targets :
             LET a == AttributesOf(store, t)
                 b == AttributesOf(store', t)
             IN  \A n \in Names \ {last'.name} :
                   (Defined(a) /\ Has(a[1], n)) => b[1][n] = a[1][n]
    ]_vars

\* one caller object registered for two properties of a class, then a merge
\* into the first property only
C9_Witness ==
  /\ Len(AttributeCalls) >= 3
  /\ AttributeCalls[1].op = "addAttribute" /\ AttributeCalls[2].op = "addAttribute"
  /\ AttributeCalls[1].target = AttributeCalls[2].target
  /\ AttributeCalls[1].name # AttributeCalls[2].name
  /\ AttributeCalls[1].ref = AttributeCalls[2].ref
  /\ AttributeCalls[3].op = "addAttributeOptions"
  /\ AttributeCalls[3].target = AttributeCalls[1].target
  /\ AttributeCalls[3].name = AttributeCalls[1].name
  /\ AttributesOf(store, AttributeCalls[1].target)[1][AttributeCalls[2].name]
       = CallerObjects[AttributeCalls[1].ref]
  /\ AttributesOf(store, AttributeCalls[1].target)[1][AttributeCalls[1].name]
       # CallerObjects[AttributeCalls[1].ref]

\* C10: an addAttributeOptions call (a Comment decorator) that throws leaves
\* the whole store as it was: no map and no record is created, nothing of
\* any class changes.
C10_FailedCallChangesNothing ==
  [][ (last'.op = "addAttributeOptions" /\ Defined(last'.error)) => store' = store ]_vars

\* the call failed on a class whose attribute map exists and lacks the name,
\* with options or foreign keys in the store
C10_Witness ==
  /\ last.op = "addAttributeOptions" /\ Defined(last.error)
  /\ Defined(AttributesOf(store, last.target))
  /\ ~Has(AttributesOf(store, last.target)[1], last.name)
  /\ \E t \in Targets : Defined(OptionsOf(store, t)) \/ Defined(ForeignKeysOf(store, t))

====
